---- MODULE Spec2Model ----
(***************************************************************************)
(* AIForge RAG document store: the documents / document_chunks tables, the *)
(* row-level-security policies and the match_document_chunks similarity    *)
(* search of migrations/001_setup_rag.sql, the ingestion sequence of the   *)
(* implementation summary, and the chat event stream of the RAG README.    *)
(***************************************************************************)
EXTENDS Integers, Sequences, FiniteSets, TLC

\* ------------------------------------------------------------------ bounds
\* Chunk ids ever issued.
MaxChunks == 2
\* Chunks of one ingested document, and content events of one chat stream.
MaxBatch == 2
MaxTokens == 3
MaxSends == 2
MaxFiles == 2
MaxText == 3
MaxLines == 2

\* ------------------------------------------------------------- value sets
\* SQL NULL of the nullable column document_id (and of an absent metadata index).
NULL == -1
\* The service-role connection of the backend: it bypasses row level security.
ServiceRole == 0

Tenants == {1, 2}
Roles == Tenants \cup {ServiceRole}
\* Document ids ever issued.
DocIds == {1, 2}
ChunkIds == 1..MaxChunks

\* Unit vectors of the plane, 45 degrees apart, named by their angle / 45.
Directions == 0..7
\* Embeddings that ingested chunks carry, and the query embeddings searched with.
Embeddings == {0, 1}
QueryEmbeddings == {0, 2}
\* Cosine of k * 45 degrees, in thousandths.
CosMilli == <<1000, 707, 0, -707, -1000, -707, 0, 707>>
\* match_threshold values, in thousandths: below, and exactly at, cos 45.
MatchThresholds == {700, 707}
MatchCounts == {1, 2}
\* filter_document_ids: null (the default), or an array of document ids.
NullFilter == [is_null |-> TRUE, ids |-> {}]
ArrayFilter(ids) == [is_null |-> FALSE, ids |-> ids]
DocumentFilters == {NullFilter, ArrayFilter({1}), ArrayFilter(DocIds)}

\* The ingestion requests in flight, and the states of one request.
Ingestions == {1, 2}
NonTerminal == {"received", "extracting", "chunking", "embedding", "storing"}
Terminal == {"complete", "failed"}

VARIABLES
    documents,        \* rows of table documents
    document_chunks,  \* rows of table document_chunks
    nextDocId,        \* gen_random_uuid(): ids never repeat
    nextChunkId,
    clock,            \* now(), as far as chunk timestamps tell: one tick per insert statement
    lastSearch,       \* the match_document_chunks call whose rows the caller is reading
    ingest,           \* the ingestion requests: tenant, state, chunks, embeddings, document
    chat,             \* one streaming chat response: state and the events emitted
    lastDelete,       \* the delete from documents whose outcome the caller is reading
    page,             \* the chat page: messages, isLoading, the running handler
    browser,          \* the API client's surroundings: window, localStorage, last request
    uploads,          \* the sidebar's documents and the running handleUpload calls
    input,            \* ChatInput: the textarea's text and the latest key or click
    reader            \* streamResponse's read loop over one response body

storeVars == <<documents, document_chunks, nextDocId, nextChunkId, clock>>
sideVars == <<uploads, input, reader>>
clientVars == <<page, browser, sideVars>>
vars == <<documents, document_chunks, nextDocId, nextChunkId, clock, lastSearch,
          ingest, chat, lastDelete, page, browser, uploads, input, reader>>

NoSearch == [called |-> FALSE]
NoDelete == [called |-> FALSE]

\* No statement is waiting for its caller to read the outcome.
NoPending == ~lastSearch.called /\ ~lastDelete.called

\* ------------------------------------------------------ row level security
\* auth.uid() = tenant_id; the service role is exempt from every policy.
Policy(auth, row) == auth = ServiceRole \/ auth = row.tenant_id

\* ------------------------------------------------------------- similarity
\* 1 - (embedding <=> query_embedding): cosine similarity of two unit vectors.
Similarity(embedding, query_embedding) ==
    CosMilli[((embedding - query_embedding) % 8) + 1]

\* ------------------------------------------------- match_document_chunks
WhereTenantAll(c, filter_tenant_id) == TRUE
WhereTenant(c, filter_tenant_id) == c.tenant_id = filter_tenant_id

WhereDocumentsAll(c, filter_document_ids) == TRUE
WhereDocuments(c, filter_document_ids) ==
    \/ filter_document_ids.is_null
    \/ /\ c.document_id # NULL
       /\ c.document_id \in filter_document_ids.ids

WhereThresholdAll(c, query_embedding, match_threshold) == TRUE
WhereThreshold(c, query_embedding, match_threshold) ==
    Similarity(c.embedding, query_embedding) > match_threshold

\* The rows the function's caller may select (policy "view their own chunks").
SelectableChunks(auth) == {c \in document_chunks : Policy(auth, c)}

\* The rows that pass the where clause.
Matching(auth, query_embedding, match_threshold, filter_tenant_id, filter_document_ids) ==
    {c \in SelectableChunks(auth) :
        /\ WhereTenant(c, filter_tenant_id)
        /\ WhereDocuments(c, filter_document_ids)
        /\ WhereThreshold(c, query_embedding, match_threshold)}

\* The returned row: the selected columns and the computed similarity.
ResultRow(c, query_embedding) ==
    [id |-> c.id, document_id |-> c.document_id, tenant_id |-> c.tenant_id,
     index |-> c.index, created_at |-> c.created_at,
     similarity |-> Similarity(c.embedding, query_embedding)]

\* order by similarity desc: every ordering of the rows with no row before a
\* row of higher similarity. Rows of equal similarity come in any order.
OrderByAscending(rows) ==
    {s \in [1..Cardinality(rows) -> rows] :
        /\ \A i, j \in DOMAIN s : i # j => s[i] # s[j]
        /\ \A i, j \in DOMAIN s : i < j => s[i].similarity <= s[j].similarity}
OrderBy(rows) ==
    {s \in [1..Cardinality(rows) -> rows] :
        /\ \A i, j \in DOMAIN s : i # j => s[i] # s[j]
        /\ \A i, j \in DOMAIN s : i < j => s[i].similarity >= s[j].similarity}

\* limit match_count
LimitNone(s, match_count) == s
Limit(s, match_count) ==
    IF Len(s) <= match_count THEN s ELSE SubSeq(s, 1, match_count)

\* Every result the call can return.
match_document_chunks(auth, query_embedding, match_threshold, match_count, filter_tenant_id, filter_document_ids) ==
    {Limit(s, match_count) :
        s \in OrderBy({ResultRow(c, query_embedding) :
                c \in Matching(auth, query_embedding, match_threshold,
                               filter_tenant_id, filter_document_ids)})}

\* ----------------------------------------------------------------- Init
NoIngest == [i \in Ingestions |-> [tenant |-> 1, state |-> "received", chunks |-> 0,
                                   embeddings |-> <<>>, document_id |-> NULL]]
NoChat == [state |-> "start", events |-> <<>>]

\* The chat page as it mounts: useState([]) and useState(false), no handler
\* running. DEMO_MODE is a constant of the build.
NoPage(DEMO_MODE) ==
    [demo |-> DEMO_MODE, messages |-> <<>>, isLoading |-> FALSE, pc |-> "idle",
     fullResponse |-> <<>>, sources |-> 0, read |-> 0, sends |-> 0,
     cleared |-> FALSE, error |-> FALSE]

\* The API client's surroundings: whether window is defined, the auth_token
\* item of localStorage, the latest setToken or clearToken call, and the
\* latest request with the call it came after.
NoItem == "<null>"
NoCall == [op |-> "none", token |-> NoItem]
NoRequest == [issued |-> FALSE]
NoBrowser(window, item) ==
    [window |-> window, auth_token |-> item, last |-> NoCall, request |-> NoRequest]

\* The sidebar's document list (useState([])), the handleUpload calls, and
\* the ids given out so far.
Uploads == {1, 2}
NoUpload == [state |-> "idle", ids |-> <<>>, i |-> 0, phase |-> "none", missed |-> 0, calls |-> <<>>]
NoUploads == [documents |-> <<>>, handlers |-> [h \in Uploads |-> NoUpload], nextId |-> 1]

\* ChatInput as it mounts: useState(""), and the disabled prop.
NoEvent == [kind |-> "none"]
NoInput(disabled) == [text |-> <<>>, disabled |-> disabled, event |-> NoEvent]

\* streamResponse before its first read: buffer = '' and nothing yielded.
NoReader(body) ==
    [body |-> body, pos |-> 0, buffer |-> <<>>, yielded |-> <<>>, state |-> "reading",
     cutPrefix |-> FALSE]

NoSide ==
    /\ uploads = NoUploads
    /\ input = NoInput(FALSE)
    /\ reader = NoReader(<<>>)

NoClient ==
    /\ page = NoPage(FALSE)
    /\ browser = NoBrowser(TRUE, NoItem)
    /\ NoSide

EmptyStore ==
    /\ documents = {}
    /\ document_chunks = {}
    /\ nextDocId = 1
    /\ nextChunkId = 1
    /\ clock = 0
    /\ lastSearch = NoSearch
    /\ lastDelete = NoDelete

Init ==
    /\ EmptyStore
    /\ ingest = NoIngest
    /\ chat = NoChat
    /\ NoClient

\* ------------------------------------------------------------ statements
\* insert into documents: policy "Users can insert their own documents"
\* (with check auth.uid() = tenant_id). The new row's id is fresh.
InsertIntoDocuments(auth, tenant_id) ==
    /\ nextDocId \in DocIds
    /\ Policy(auth, [tenant_id |-> tenant_id])
    /\ documents' = documents \cup {[id |-> nextDocId, tenant_id |-> tenant_id]}
    /\ nextDocId' = nextDocId + 1
    /\ UNCHANGED <<document_chunks, nextChunkId, clock>>

\* The foreign key document_id references documents(id): null, or an existing
\* document. The check reads the table itself, not the caller's view of it.
ForeignKeyOk(document_id) ==
    document_id = NULL \/ \E d \in documents : d.id = document_id

\* The rows one insert statement adds to document_chunks: fresh ids, and
\* created_at = now() is the same for every row of the statement.
NewChunkRows(values) ==
    {[id |-> nextChunkId + k - 1, document_id |-> values[k].document_id,
      tenant_id |-> values[k].tenant_id, embedding |-> values[k].embedding,
      index |-> values[k].index, created_at |-> clock] : k \in DOMAIN values}

\* insert into document_chunks values (...), (...): policy "Users can insert
\* their own chunks". One statement: every row is added, or none is.
InsertIntoChunks(auth, values) ==
    /\ nextChunkId + Len(values) - 1 <= MaxChunks
    /\ \A k \in DOMAIN values : Policy(auth, values[k])
    /\ \A k \in DOMAIN values : ForeignKeyOk(values[k].document_id)
    /\ document_chunks' = document_chunks \cup NewChunkRows(values)
    /\ nextChunkId' = nextChunkId + Len(values)
    /\ clock' = clock + 1
    /\ UNCHANGED <<documents, nextDocId>>

\* on delete cascade: the chunks that go with the deleted documents.
CascadeNone(deleted) == {}
Cascade(deleted) ==
    {c \in document_chunks : \E d \in deleted : c.document_id = d.id}

\* delete from documents where id = document_id: policy "Users can delete
\* their own documents" (using auth.uid() = tenant_id). The rows the statement
\* deletes are the matching rows the policy lets the caller see.
DeletableDocuments(auth, document_id) ==
    {d \in documents : d.id = document_id /\ Policy(auth, d)}

\* A row the policy hides is not deleted, and the statement succeeds with
\* zero rows.
DeleteFromDocuments(auth, document_id) ==
    /\ documents' = documents \ DeletableDocuments(auth, document_id)
    /\ document_chunks' =
          document_chunks \ Cascade(DeletableDocuments(auth, document_id))
    /\ UNCHANGED <<nextDocId, nextChunkId, clock>>

\* The SQLSTATE of the delete statement: a delete that finds no row to delete
\* completes successfully ("DELETE 0"); no policy raises an error.
DeleteStatusNoData(deleted) == IF deleted = {} THEN "P0002" ELSE "00000"
DeleteStatus(deleted) == "00000"

\* delete from document_chunks where id = chunk_id: policy "Users can delete
\* their own chunks".
DeleteFromChunks(auth, chunk_id) ==
    /\ document_chunks' =
          {c \in document_chunks : ~(c.id = chunk_id /\ Policy(auth, c))}
    /\ UNCHANGED <<documents, nextDocId, nextChunkId, clock>>

\* ------------------------------------------- the store, statement by statement
InsertDocument(auth, tenant_id) ==
    /\ NoPending
    /\ InsertIntoDocuments(auth, tenant_id)
    /\ UNCHANGED <<lastSearch, ingest, chat, lastDelete, clientVars>>

\* A chunk row written directly: metadata defaults to '{}', so it has no index.
InsertChunk(auth, document_id, tenant_id, embedding) ==
    /\ NoPending
    /\ InsertIntoChunks(auth, <<[document_id |-> document_id, tenant_id |-> tenant_id,
                                 embedding |-> embedding, index |-> NULL]>>)
    /\ UNCHANGED <<lastSearch, ingest, chat, lastDelete, clientVars>>

\* The statement and its outcome: the status, the number of rows deleted, and
\* the two tables as they were before it.
DeleteDocument(auth, document_id) ==
    /\ NoPending
    /\ DeleteFromDocuments(auth, document_id)
    /\ lastDelete' = [called |-> TRUE, auth |-> auth, document_id |-> document_id,
                      sqlstate |-> DeleteStatus(DeletableDocuments(auth, document_id)),
                      rows |-> Cardinality(DeletableDocuments(auth, document_id)),
                      documents |-> documents,
                      document_chunks |-> document_chunks]
    /\ UNCHANGED <<lastSearch, ingest, chat, clientVars>>

\* The caller has read the outcome of its delete.
DeleteReturn ==
    /\ lastDelete.called
    /\ lastDelete' = NoDelete
    /\ UNCHANGED <<storeVars, lastSearch, ingest, chat, clientVars>>

DeleteChunk(auth, chunk_id) ==
    /\ NoPending
    /\ DeleteFromChunks(auth, chunk_id)
    /\ UNCHANGED <<lastSearch, ingest, chat, lastDelete, clientVars>>

\* select * from match_document_chunks(...): the caller gets one of the results
\* the function can return.
Search(auth, query_embedding, match_threshold, match_count, filter_tenant_id, filter_document_ids) ==
    /\ NoPending
    /\ \E rows \in match_document_chunks(auth, query_embedding, match_threshold,
                       match_count, filter_tenant_id, filter_document_ids) :
          lastSearch' = [called |-> TRUE,
                         query_embedding |-> query_embedding,
                         match_threshold |-> match_threshold,
                         match_count |-> match_count,
                         filter_tenant_id |-> filter_tenant_id,
                         filter_document_ids |-> filter_document_ids,
                         rows |-> rows]
    /\ UNCHANGED <<storeVars, ingest, chat, lastDelete, clientVars>>

\* The caller has read the rows of its search.
SearchReturn ==
    /\ lastSearch.called
    /\ lastSearch' = NoSearch
    /\ UNCHANGED <<storeVars, ingest, chat, lastDelete, clientVars>>

\* A search by a tenant, or by the backend's service role on the tenant's behalf.
SomeSearch ==
    \E t \in Tenants, q \in QueryEmbeddings, th \in MatchThresholds,
       n \in MatchCounts, f \in DocumentFilters :
       \E auth \in {t, ServiceRole} : Search(auth, q, th, n, t, f)

\* ------------------------------------------------------------ vectorstore
\* create_document(tenant_id, name, source): one insert into documents by the
\* backend's connection; the id of the new row is returned.
create_document(tenant_id) == InsertIntoDocuments(ServiceRole, tenant_id)

\* Position indices taken from one counter shared by all documents.
ChunkValuesGlobal(document_id, tenant_id, embeddings) ==
    [k \in DOMAIN embeddings |->
        [document_id |-> document_id, tenant_id |-> tenant_id,
         embedding |-> embeddings[k], index |-> nextChunkId + k - 2]]

\* The rows store_chunks writes: chunk k of the document, with its embedding
\* and its zero-based position index in the metadata.
ChunkValues(document_id, tenant_id, embeddings) ==
    [k \in DOMAIN embeddings |->
        [document_id |-> document_id, tenant_id |-> tenant_id,
         embedding |-> embeddings[k], index |-> k - 1]]

\* store_chunks(document_id, tenant_id, chunks, embeddings): one bulk insert.
store_chunks(document_id, tenant_id, embeddings) ==
    InsertIntoChunks(ServiceRole, ChunkValues(document_id, tenant_id, embeddings))

\* list_documents(tenant_id): the tenant's documents.
list_documents(tenant_id) == {d \in documents : d.tenant_id = tenant_id}

\* -------------------------------------------------------------- ingestion
\* One request, stage by stage, as the usage example runs it:
\* ingest_file, chunk_documents, embed_batch, create_document, store_chunks.
Advance(i, state) == [ingest EXCEPT ![i].state = state]

\* A request arrives for a tenant: validation passed, extraction starts.
StartExtracting(i) ==
    /\ ingest[i].state = "received"
    /\ ingest' = Advance(i, "extracting")
    /\ UNCHANGED <<storeVars, lastSearch, chat, lastDelete, clientVars>>

\* Extraction hands its text straight to the embedder.
IngestFileSkipsChunking(i) ==
    /\ ingest[i].state = "extracting"
    /\ ingest' = Advance(i, "embedding")
    /\ UNCHANGED <<storeVars, lastSearch, chat, lastDelete, clientVars>>

\* 1. documents = await ingestion_service.ingest_file(...)
IngestFile(i) ==
    /\ ingest[i].state = "extracting"
    /\ ingest' = Advance(i, "chunking")
    /\ UNCHANGED <<storeVars, lastSearch, chat, lastDelete, clientVars>>

\* 2. chunks = await chunking_service.chunk_documents(documents)
ChunkDocuments(i, n) ==
    /\ ingest[i].state = "chunking"
    /\ ingest' = [ingest EXCEPT ![i].state = "embedding", ![i].chunks = n]
    /\ UNCHANGED <<storeVars, lastSearch, chat, lastDelete, clientVars>>

\* 3. embeddings = await embedding_service.embed_batch(...): one vector per chunk.
EmbedBatch(i, embeddings) ==
    /\ ingest[i].state = "embedding"
    /\ Len(embeddings) = ingest[i].chunks
    /\ ingest' = [ingest EXCEPT ![i].state = "storing", ![i].embeddings = embeddings]
    /\ UNCHANGED <<storeVars, lastSearch, chat, lastDelete, clientVars>>

\* 4. doc_id = await vectorstore.create_document(tenant_id=user_id, ...)
CreateDocument(i) ==
    /\ ingest[i].state = "storing"
    /\ ingest[i].document_id = NULL
    /\ NoPending
    /\ create_document(ingest[i].tenant)
    /\ ingest' = [ingest EXCEPT ![i].document_id = nextDocId]
    /\ UNCHANGED <<lastSearch, chat, lastDelete, clientVars>>

\* The same call made once per chunk: the first chunk is written and the
\* request is still storing.
StoreChunksOneAtATime(i) ==
    /\ ingest[i].state = "storing"
    /\ ingest[i].document_id # NULL
    /\ ingest[i].embeddings # <<>>
    /\ NoPending
    /\ store_chunks(ingest[i].document_id, ingest[i].tenant,
                    SubSeq(ingest[i].embeddings, 1, 1))
    /\ UNCHANGED <<lastSearch, chat, ingest, lastDelete, clientVars>>

\* 4. await vectorstore.store_chunks(document_id=doc_id, tenant_id=user_id, ...)
StoreChunks(i) ==
    /\ ingest[i].state = "storing"
    /\ ingest[i].document_id # NULL
    /\ NoPending
    /\ store_chunks(ingest[i].document_id, ingest[i].tenant, ingest[i].embeddings)
    /\ ingest' = Advance(i, "complete")
    /\ UNCHANGED <<lastSearch, chat, lastDelete, clientVars>>

\* A stage raises: the example has no handler, so the request ends there and
\* whatever the earlier calls wrote stays written.
Fail(i) ==
    /\ ingest[i].state \in NonTerminal
    /\ ingest' = Advance(i, "failed")
    /\ UNCHANGED <<storeVars, lastSearch, chat, lastDelete, clientVars>>

\* rag_config: top_k = 5 results per query, similarity_threshold = 0.7
\* (in thousandths).
top_k == 5
similarity_threshold == 700

\* The retriever's search for a tenant, with the configured top_k and threshold.
Retrieve(tenant_id, query_embedding, document_ids) ==
    Search(ServiceRole, query_embedding, similarity_threshold, top_k,
           tenant_id, document_ids)

\* The tenants of the requests are the inputs of the ingestion specification.
InitIngest ==
    /\ EmptyStore
    /\ ingest \in [Ingestions -> {[tenant |-> t, state |-> "received", chunks |-> 0,
                                   embeddings |-> <<>>, document_id |-> NULL] :
                                  t \in Tenants}]
    /\ chat = NoChat
    /\ NoClient

EmbeddingSeqs == UNION {[1..n -> Embeddings] : n \in 0..MaxBatch}

NextIngest ==
    \/ \E i \in Ingestions : StartExtracting(i)
    \/ \E i \in Ingestions : IngestFile(i)
    \/ \E i \in Ingestions, n \in 0..MaxBatch : ChunkDocuments(i, n)
    \/ \E i \in Ingestions, e \in EmbeddingSeqs : EmbedBatch(i, e)
    \/ \E i \in Ingestions : CreateDocument(i)
    \/ \E i \in Ingestions : StoreChunks(i)
    \/ \E i \in Ingestions : Fail(i)
    \/ \E t \in Tenants, d \in DocIds : DeleteDocument(t, d)
    \/ \E t \in Tenants, q \in QueryEmbeddings, f \in DocumentFilters :
          Retrieve(t, q, f)
    \/ SearchReturn
    \/ DeleteReturn

SpecIngest == InitIngest /\ [][NextIngest]_vars

\* ------------------------------------------------------------- chat stream
\* The events of POST /api/v1/rag/chat with stream = true, one "data:" line each.
SourcesEvent(n) == [type |-> "sources", data |-> n]
ContentEvent(token) == [type |-> "content", data |-> token]
DoneEvent == [type |-> "done", data |-> 0]
Tokens == {1, 2}

\* What each stage puts on the stream.
EmitNothing(events, e) == events
Emit(events, e) == Append(events, e)

\* start -> retrieving: the request is accepted.
ChatStart ==
    /\ chat.state = "start"
    /\ chat' = [chat EXCEPT !.state = "retrieving"]
    /\ UNCHANGED <<storeVars, lastSearch, ingest, lastDelete, clientVars>>

\* retrieving -> prompting: the retriever returned n sources (none is allowed),
\* and the sources event opens the stream.
ChatRetrieve(n) ==
    /\ chat.state = "retrieving"
    /\ chat' = [state |-> "prompting", events |-> Emit(chat.events, SourcesEvent(n))]
    /\ UNCHANGED <<storeVars, lastSearch, ingest, lastDelete, clientVars>>

\* prompting -> generating: the prompt is assembled, nothing is emitted.
ChatPrompt ==
    /\ chat.state = "prompting"
    /\ chat' = [chat EXCEPT !.state = "generating"]
    /\ UNCHANGED <<storeVars, lastSearch, ingest, lastDelete, clientVars>>

\* generating: the model produced a token, sent as a content event.
ChatContent(token) ==
    /\ chat.state = "generating"
    /\ Len(chat.events) <= MaxTokens
    /\ chat' = [chat EXCEPT !.events = Emit(chat.events, ContentEvent(token))]
    /\ UNCHANGED <<storeVars, lastSearch, ingest, lastDelete, clientVars>>

\* generating -> done: generation ended, the done event closes the stream.
ChatDone ==
    /\ chat.state = "generating"
    /\ chat' = [state |-> "done", events |-> Emit(chat.events, DoneEvent)]
    /\ UNCHANGED <<storeVars, lastSearch, ingest, lastDelete, clientVars>>

\* retrieving -> failed: retrieval failed before the stream began.
ChatRetrieveFails ==
    /\ chat.state = "retrieving"
    /\ chat' = [chat EXCEPT !.state = "failed"]
    /\ UNCHANGED <<storeVars, lastSearch, ingest, lastDelete, clientVars>>

\* The generator dies without a last event.
ChatGenerateFailsSilently ==
    /\ chat.state = "generating"
    /\ chat' = [chat EXCEPT !.state = "failed"]
    /\ UNCHANGED <<storeVars, lastSearch, ingest, lastDelete, clientVars>>

\* generating -> failed: generation failed mid-stream; a terminating event is
\* still emitted so that the stream ends.
ChatGenerateFails ==
    /\ chat.state = "generating"
    /\ chat' = [state |-> "failed", events |-> Emit(chat.events, DoneEvent)]
    /\ UNCHANGED <<storeVars, lastSearch, ingest, lastDelete, clientVars>>

NextChat ==
    \/ ChatStart
    \/ \E n \in 0..top_k : ChatRetrieve(n)
    \/ ChatPrompt
    \/ \E token \in Tokens : ChatContent(token)
    \/ ChatDone
    \/ ChatRetrieveFails
    \/ ChatGenerateFails

SpecChat == Init /\ [][NextChat]_vars

\* ------------------------------------------------- the store, by statements
Next ==
    \/ \E auth \in Roles, t \in Tenants : InsertDocument(auth, t)
    \/ \E auth \in Roles, d \in DocIds \cup {NULL}, t \in Tenants, e \in Embeddings :
          InsertChunk(auth, d, t, e)
    \/ \E auth \in Roles, d \in DocIds : DeleteDocument(auth, d)
    \/ \E auth \in Roles, c \in ChunkIds : DeleteChunk(auth, c)
    \/ SomeSearch
    \/ SearchReturn
    \/ DeleteReturn

Spec == Init /\ [][Next]_vars

\* ======================================================== similarity search
\* What the claims about a search read: the call in lastSearch and the store
\* it ran on (no statement runs between a search and its return).
Rows == lastSearch.rows
RowIds == {Rows[k].id : k \in DOMAIN Rows}
Sim(c) == Similarity(c.embedding, lastSearch.query_embedding)
\* The chunks of the searching tenant that the document filter lets through.
Candidates ==
    {c \in document_chunks :
        /\ c.tenant_id = lastSearch.filter_tenant_id
        /\ \/ lastSearch.filter_document_ids.is_null
           \/ /\ c.document_id # NULL
              /\ c.document_id \in lastSearch.filter_document_ids.ids}

\* C1: a similarity search with filter_tenant_id = T1 returns no chunk whose
\* tenant_id is another tenant's, whatever rows the tenants and the backend
\* have inserted and deleted, and whoever issues the search.
C1_TenantIsolation ==
    lastSearch.called =>
        \A k \in DOMAIN Rows : Rows[k].tenant_id = lastSearch.filter_tenant_id

\* C1 witness: a search that returned rows while another tenant's chunk, which
\* passes the document filter and the threshold of that search, is stored.
C1_Witness ==
    /\ lastSearch.called
    /\ Rows # <<>>
    /\ \E c \in document_chunks :
          /\ c.tenant_id # lastSearch.filter_tenant_id
          /\ WhereDocuments(c, lastSearch.filter_document_ids)
          /\ Sim(c) > lastSearch.match_threshold

\* C5: every returned chunk has a similarity that is not below the
\* match_threshold of the search.
C5_SimilarityFloor ==
    lastSearch.called =>
        \A k \in DOMAIN Rows : Rows[k].similarity >= lastSearch.match_threshold

\* C5 witness: a search that returned a row and left out a candidate chunk
\* whose similarity is below the threshold.
C5_Witness ==
    /\ lastSearch.called
    /\ Rows # <<>>
    /\ \E c \in Candidates : Sim(c) < lastSearch.match_threshold /\ c.id \notin RowIds

\* The candidates at or above the floor, and those the where clause lets through.
AtOrAboveFloor == {c \in Candidates : Sim(c) >= lastSearch.match_threshold}
ClearFloor == {c \in Candidates : Sim(c) > lastSearch.match_threshold}
Ids(chunks) == {c.id : c \in chunks}

\* C6 (as claimed): when the tenant's chunks with similarity >= min_similarity
\* number at most top_k, the search returns exactly those chunks.
C6_ExactlyAtOrAboveFloor ==
    (lastSearch.called /\ Cardinality(AtOrAboveFloor) <= lastSearch.match_count)
        => RowIds = Ids(AtOrAboveFloor)

C7_WitnessFewer ==
    /\ lastSearch.called
    /\ Rows # <<>>
    /\ Len(Rows) < lastSearch.match_count
    /\ \E c \in Candidates : Sim(c) < lastSearch.match_threshold

\* C8 (as claimed): rows come in descending similarity, and rows of equal
\* similarity in the order of their creation timestamps, earlier first.
C8_TiesByCreation ==
    lastSearch.called =>
        \A i, j \in DOMAIN Rows : i < j =>
            \/ Rows[i].similarity > Rows[j].similarity
            \/ /\ Rows[i].similarity = Rows[j].similarity
               /\ Rows[i].created_at <= Rows[j].created_at

\* The part of C8 the function does guarantee: descending similarity.
C8_Descending ==
    lastSearch.called =>
        \A i, j \in DOMAIN Rows : i < j => Rows[i].similarity >= Rows[j].similarity

\* ================================================================ ingestion
ChunksOf(document_id) == {c \in document_chunks : c.document_id = document_id}
DocumentIds == Ids(documents)

\* C3 (as claimed): after a failed ingestion, no document row and no chunk row
\* of that ingestion is visible to list_documents or to a search.
C3_FailureLeavesNothing ==
    \A i \in Ingestions :
        (ingest[i].state = "failed" /\ ingest[i].document_id # NULL) =>
            /\ ingest[i].document_id \notin Ids(list_documents(ingest[i].tenant))
            /\ ChunksOf(ingest[i].document_id) = {}

\* C4: while the ingestion of document D has not completed, no chunk of D is
\* stored and no search returns one; whenever chunks of D are stored, all of
\* them are, with the positions 0..n-1.
C4_NoDirtyRead ==
    \A i \in Ingestions :
        ingest[i].document_id # NULL =>
            /\ ingest[i].state # "complete" =>
                  /\ ChunksOf(ingest[i].document_id) = {}
                  /\ lastSearch.called =>
                        \A k \in DOMAIN Rows : Rows[k].document_id # ingest[i].document_id
            /\ \/ ChunksOf(ingest[i].document_id) = {}
               \/ /\ Cardinality(ChunksOf(ingest[i].document_id)) = ingest[i].chunks
                  /\ {c.index : c \in ChunksOf(ingest[i].document_id)}
                        = 0..(ingest[i].chunks - 1)

\* C4 witness: a tenant's retrieval that returned rows while a document of the
\* same tenant, within the retrieval's filter, was created and its chunks were
\* not yet stored.
C4_Witness ==
    /\ lastSearch.called
    /\ Rows # <<>>
    /\ \E i \in Ingestions :
          /\ ingest[i].state = "storing"
          /\ ingest[i].document_id \in DocumentIds
          /\ ingest[i].chunks > 0
          /\ ingest[i].tenant = lastSearch.filter_tenant_id
          /\ WhereDocuments(ingest[i], lastSearch.filter_document_ids)

C10_DeleteCascades ==
    \A d \in DocIds :
        (d < nextDocId /\ d \notin DocumentIds) =>
            /\ ChunksOf(d) = {}
            /\ lastSearch.called => \A k \in DOMAIN Rows : Rows[k].document_id # d

\* C10 witness: a search by the tenant after the deletion of one of its
\* documents, whose ingestion had completed with chunks.
C10_Witness ==
    /\ lastSearch.called
    /\ \E i \in Ingestions :
          /\ ingest[i].state = "complete"
          /\ ingest[i].chunks > 0
          /\ ingest[i].document_id \notin DocumentIds
          /\ ingest[i].tenant = lastSearch.filter_tenant_id

\* ============================================================== chat stream
\* C2: the first event of a stream is the sources event, every event between
\* the first and the last is a content event, an ended stream ends with the
\* done event, and nothing follows done.
C2_StreamOrder ==
    LET ev == chat.events
    IN /\ ev # <<>> => ev[1].type = "sources"
       /\ \A k \in DOMAIN ev : (1 < k /\ k < Len(ev)) => ev[k].type = "content"
       /\ \A k \in DOMAIN ev : k > 1 => ev[k].type \in {"content", "done"}
       /\ \A k \in DOMAIN ev :
             ev[k].type = "done" => (k = Len(ev) /\ chat.state \in {"done", "failed"})
       /\ chat.state = "done" => (ev # <<>> /\ ev[Len(ev)].type = "done")
       /\ (chat.state = "failed" /\ ev # <<>>) => ev[Len(ev)].type = "done"

\* C2 witness: a complete stream with an empty source list, two content
\* events and the done event.
C2_Witness ==
    /\ chat.state = "done"
    /\ Len(chat.events) = 4
    /\ chat.events[1] = SourcesEvent(0)
    /\ chat.events[3].type = "content"

\* ==================================================== the store's integrity
\* C11 (as claimed): every chunk references an existing document, and the
\* chunk's tenant_id equals that document's tenant_id.
C11_ChunkMatchesDocument ==
    \A c \in document_chunks :
        \E d \in documents : d.id = c.document_id /\ d.tenant_id = c.tenant_id

\* The delete whose outcome is being read named a document that was not in
\* the table, or one that another tenant owns.
DeletedAbsent ==
    /\ lastDelete.called
    /\ lastDelete.auth \in Tenants
    /\ lastDelete.document_id \notin Ids(lastDelete.documents)
DeletedForeign ==
    /\ lastDelete.called
    /\ lastDelete.auth \in Tenants
    /\ \E d \in lastDelete.documents :
          d.id = lastDelete.document_id /\ d.tenant_id # lastDelete.auth
StoreAsBeforeDelete ==
    /\ documents = lastDelete.documents
    /\ document_chunks = lastDelete.document_chunks

\* C12: a tenant's delete of a document id that is not in the table (deleted
\* before, or never issued) completes without error, deletes no row, leaves both
\* tables as they were, and no chunk references the id.
C12_IdempotentDelete ==
    DeletedAbsent =>
        /\ lastDelete.sqlstate = "00000"
        /\ lastDelete.rows = 0
        /\ StoreAsBeforeDelete
        /\ ChunksOf(lastDelete.document_id) = {}

\* C12 witness: a tenant deletes an id that was issued and is already deleted,
\* while the store holds other rows.
C12_Witness ==
    /\ DeletedAbsent
    /\ lastDelete.document_id < nextDocId
    /\ documents # {}
    /\ document_chunks # {}

\* C13 (as claimed): a tenant's delete of a document that another tenant owns
\* ends in an error, and leaves the document and its chunks unchanged.
C13_ForeignDeleteFails ==
    DeletedForeign =>
        /\ lastDelete.sqlstate # "00000"
        /\ StoreAsBeforeDelete

\* The part of C13 that holds: the other tenant's rows are untouched.
C13_ForeignDeleteChangesNothing == DeletedForeign => StoreAsBeforeDelete

StageOrder == <<"received", "extracting", "chunking", "embedding", "storing", "complete">>
StageAfter(state) ==
    StageOrder[(CHOOSE k \in DOMAIN StageOrder : StageOrder[k] = state) + 1]

\* C17: a request changes state only from a non-terminal state, and only to
\* the next stage of received, extracting, chunking, embedding, storing,
\* complete, or to failed; in every non-terminal state the step to failed is
\* possible; nothing leaves complete or failed.
C17_StageOrder ==
    /\ [](\A i \in Ingestions : ingest[i].state \in NonTerminal => ENABLED Fail(i))
    /\ [][\A i \in Ingestions :
            ingest[i].state' # ingest[i].state =>
                /\ ingest[i].state \in NonTerminal
                /\ \/ ingest[i].state' = "failed"
                   \/ ingest[i].state' = StageAfter(ingest[i].state)]_vars

\* C17 witness: one request went through every stage to complete, another
\* failed while storing, after its document was created.
C17_Witness ==
    \E i, j \in Ingestions :
        /\ ingest[i].state = "complete"
        /\ ingest[j].state = "failed"
        /\ ingest[j].document_id # NULL

\* ============================================================ the chat page
\* The "data: " line of each event as documented: a JSON object whose keys
\* are type and, by type, sources or content.
ToWire(e) ==
    IF e.type = "sources" THEN [type |-> "sources", sources |-> e.data]
    ELSE IF e.type = "content" THEN [type |-> "content", content |-> e.data]
    ELSE [type |-> "done"]

\* streamResponse yields JSON.parse(data), or the raw data when it is not JSON.
IsString(chunk) == "raw" \in DOMAIN chunk
\* chunk.token and chunk.sources as conditions: a missing key is undefined; a
\* token here is a non-empty string and an array is truthy even when empty.
HasToken(chunk) == "token" \in DOMAIN chunk
HasSources(chunk) == "sources" \in DOMAIN chunk

UserMessage == [role |-> "user", content |-> <<>>, sources |-> NULL, isStreaming |-> FALSE]
EmptyAssistantMessage ==
    [role |-> "assistant", content |-> <<>>, sources |-> NULL, isStreaming |-> TRUE]
\* "Sorry, I encountered an error. Please try again."
ErrorMessage ==
    [role |-> "assistant", content |-> <<0>>, sources |-> NULL, isStreaming |-> FALSE]

\* DEMO_RESPONSE: the answer's words and the three fixed sources.
DemoWords == <<1, 2>>
DemoSources == 3

Last(messages) == messages[Len(messages)]
\* setMessages(prev => { lastMessage = newMessages[newMessages.length - 1];
\* if (lastMessage.role === "assistant") {...} }): on an empty list lastMessage
\* is undefined and reading its role throws a TypeError.
Throws(messages) == messages = <<>>
UpdateLast(messages, f) ==
    IF Last(messages).role = "assistant"
    THEN [messages EXCEPT ![Len(messages)] = f]
    ELSE messages
Crashed == [page EXCEPT !.error = TRUE, !.pc = "crashed"]

\* handleSendMessage(message), up to its first await: the user message is
\* appended, isLoading is set, and the empty assistant message is appended (by
\* simulateStreaming in demo mode, before the stream is read otherwise).
\* ChatInput does not send while isLoading.
SendMessage ==
    /\ page.sends < MaxSends
    /\ ~page.demo => chat.state = "start"
    /\ page' = [page EXCEPT
                  !.messages = Append(Append(@, UserMessage), EmptyAssistantMessage),
                  !.isLoading = TRUE,
                  !.pc = IF page.demo THEN "demo" ELSE "streaming",
                  !.fullResponse = <<>>, !.sources = 0, !.read = 0,
                  !.sends = @ + 1, !.cleared = FALSE]

\* The user sends a message through an enabled ChatInput.
handleSendMessage ==
    /\ ~page.isLoading
    /\ page.pc = "idle"
    /\ SendMessage
    /\ UNCHANGED <<storeVars, lastSearch, ingest, chat, lastDelete, browser, sideVars>>

\* The request reaches the server.
PageChatStart ==
    /\ page.pc = "streaming"
    /\ ChatStart

\* What one chunk of the stream adds to fullResponse and to sources.
NextFullResponse(chunk) ==
    IF IsString(chunk) THEN Append(page.fullResponse, chunk.raw)
    ELSE IF HasToken(chunk) THEN Append(page.fullResponse, chunk.token)
    ELSE page.fullResponse
NextSources(chunk) ==
    IF ~IsString(chunk) /\ ~HasToken(chunk) /\ HasSources(chunk)
    THEN chunk.sources ELSE page.sources

\* One round of "for await (const chunk of stream)": the chunk is read, then
\* the last message is updated with the content and the sources so far.
StreamEvent ==
    /\ page.pc = "streaming"
    /\ page.read < Len(chat.events)
    /\ LET chunk == ToWire(chat.events[page.read + 1])
       IN page' =
            IF Throws(page.messages) THEN Crashed
            ELSE [page EXCEPT
                    !.fullResponse = NextFullResponse(chunk),
                    !.sources = NextSources(chunk),
                    !.read = @ + 1,
                    !.messages = UpdateLast(@,
                        [Last(@) EXCEPT
                            !.content = NextFullResponse(chunk),
                            !.sources = IF NextSources(chunk) > 0
                                        THEN NextSources(chunk) ELSE NULL])]
    /\ UNCHANGED <<storeVars, lastSearch, ingest, chat, lastDelete, browser, sideVars>>

\* The response body ended: the loop exits, the streaming indicator is
\* removed and isLoading is reset.
StreamEnd ==
    /\ page.pc = "streaming"
    /\ chat.state \in {"done", "failed"}
    /\ chat.events # <<>>
    /\ page.read = Len(chat.events)
    /\ page' =
          IF Throws(page.messages) THEN Crashed
          ELSE [page EXCEPT
                  !.messages = UpdateLast(@, [Last(@) EXCEPT !.isStreaming = FALSE]),
                  !.isLoading = FALSE, !.pc = "idle"]
    /\ UNCHANGED <<storeVars, lastSearch, ingest, chat, lastDelete, browser, sideVars>>

\* The request failed before any event: streamResponse throws, and the catch
\* block appends the error message.
StreamFails ==
    /\ page.pc = "streaming"
    /\ chat.state = "failed"
    /\ chat.events = <<>>
    /\ page' = [page EXCEPT !.messages = Append(@, ErrorMessage),
                            !.isLoading = FALSE, !.pc = "idle"]
    /\ UNCHANGED <<storeVars, lastSearch, ingest, chat, lastDelete, browser, sideVars>>

\* simulateStreaming: one more word of DEMO_RESPONSE.answer after 30 ms.
DemoWord ==
    /\ page.pc = "demo"
    /\ page.read < Len(DemoWords)
    /\ page' =
          IF Throws(page.messages) THEN Crashed
          ELSE [page EXCEPT
                  !.fullResponse = SubSeq(DemoWords, 1, page.read + 1),
                  !.read = @ + 1,
                  !.messages = UpdateLast(@,
                      [Last(@) EXCEPT !.content = SubSeq(DemoWords, 1, page.read + 1)])]
    /\ UNCHANGED <<storeVars, lastSearch, ingest, chat, lastDelete, browser, sideVars>>

\* simulateStreaming: after the last word, DEMO_RESPONSE.sources are attached.
DemoEnd ==
    /\ page.pc = "demo"
    /\ page.read = Len(DemoWords)
    /\ page' =
          IF Throws(page.messages) THEN Crashed
          ELSE [page EXCEPT
                  !.messages = UpdateLast(@,
                      [Last(@) EXCEPT !.isStreaming = FALSE, !.sources = DemoSources]),
                  !.isLoading = FALSE, !.pc = "idle"]
    /\ UNCHANGED <<storeVars, lastSearch, ingest, chat, lastDelete, browser, sideVars>>

\* handleNewChat: setMessages([]). The sidebar button is never disabled.
handleNewChat ==
    /\ ~page.error
    /\ page' = [page EXCEPT !.messages = <<>>, !.cleared = TRUE]
    /\ UNCHANGED <<storeVars, lastSearch, ingest, chat, lastDelete, browser, sideVars>>

InitPage ==
    /\ EmptyStore
    /\ ingest = NoIngest
    /\ chat = NoChat
    /\ page \in {NoPage(DEMO_MODE) : DEMO_MODE \in BOOLEAN}
    /\ browser = NoBrowser(TRUE, NoItem)
    /\ NoSide

NextPage ==
    \/ handleSendMessage
    \/ PageChatStart
    \/ \E n \in 0..top_k : ChatRetrieve(n)
    \/ ChatPrompt
    \/ \E token \in Tokens : ChatContent(token)
    \/ ChatDone
    \/ ChatRetrieveFails
    \/ ChatGenerateFails
    \/ StreamEvent
    \/ StreamEnd
    \/ StreamFails
    \/ DemoWord
    \/ DemoEnd
    \/ handleNewChat

SpecPage == InitPage /\ [][NextPage]_vars

\* The reader's promise resolves whenever the body has data or has ended.
FairSpecPage ==
    /\ SpecPage
    /\ WF_vars(StreamEvent) /\ WF_vars(StreamEnd) /\ WF_vars(StreamFails)

\* The server answers the request and the response makes progress, the
\* reader's promises resolve, and the demo timers fire.
ServerStep ==
    \/ PageChatStart
    \/ \E n \in 0..top_k : ChatRetrieve(n)
    \/ ChatPrompt
    \/ \E token \in Tokens : ChatContent(token)
    \/ ChatDone
    \/ ChatRetrieveFails
    \/ ChatGenerateFails
LiveSpecPage ==
    /\ SpecPage
    /\ WF_vars(ServerStep)
    /\ WF_vars(StreamEvent) /\ WF_vars(StreamEnd) /\ WF_vars(StreamFails)
    /\ WF_vars(DemoWord) /\ WF_vars(DemoEnd)

\* The content of the content events among the given events, in order.
ContentOf(events) ==
    LET cs == SelectSeq(events, LAMBDA e : e.type = "content")
    IN [k \in DOMAIN cs |-> cs[k].data]

\* The page is showing the assistant message of a stream it is reading, or
\* has read to the done event, with no New Chat and no failure in between.
ShowingStream ==
    /\ ~page.demo /\ ~page.error /\ ~page.cleared
    /\ page.messages # <<>>
    /\ Last(page.messages).role = "assistant"
    /\ \/ page.pc = "streaming"
       \/ page.pc = "idle" /\ chat.state = "done"

\* C14 (as claimed): in non-demo mode the assistant message shown is, at
\* every step of the stream and at its end, the in-order concatenation of the
\* content of the content events received so far.
C14_MessageIsConcatenation ==
    ShowingStream =>
        Last(page.messages).content = ContentOf(SubSeq(chat.events, 1, page.read))

\* C15: when generation fails after the stream has started, the last event of
\* the stream is the done event, and the page's reading of the stream ends.
C15_FailedStreamEnds ==
    /\ [](chat.state = "failed" /\ chat.events # <<>>
            => chat.events[Len(chat.events)].type = "done")
    /\ (chat.state = "failed" /\ chat.events # <<>>) ~> (page.pc # "streaming")

\* C15 witness: generation failed after a content event, and the page has
\* read the whole stream and is idle again.
C15_Witness ==
    /\ chat.state = "failed"
    /\ Len(chat.events) >= 3
    /\ page.pc = "idle"
    /\ page.read = Len(chat.events)
    /\ ~page.isLoading /\ ~page.error

\* C18 (as claimed): the sources shown on a message are those of the sources
\* event of the response, so a retrieval that returned nothing shows none, and
\* no message shows sources that no retrieval returned.
C18_OnlyRetrievedSources ==
    \A k \in DOMAIN page.messages :
        page.messages[k].sources # NULL =>
            /\ page.read >= 1
            /\ chat.events # <<>>
            /\ chat.events[1] = SourcesEvent(page.messages[k].sources)

\* The same, for a build with DEMO_MODE = false.
C18_NonDemo == ~page.demo => C18_OnlyRetrievedSources

\* C20 (as claimed): after New Chat the message list is empty until the next
\* send, and no update of the page fails.
C20_NewChatClears ==
    /\ ~page.error
    /\ page.cleared => page.messages = <<>>

\* =========================================================== the API client
\* The tokens setToken is called with; the empty string is a string too.
AuthTokens == {"", "a", "b"}

\* if (token) headers['Authorization'] = `Bearer ${token}`: null and the empty
\* string add no header.
NoAuthorization == <<>>
Bearer(token) == <<"Bearer", token>>
AuthorizationNever(token) == NoAuthorization
Authorization(token) ==
    IF token # NoItem /\ token # "" THEN Bearer(token) ELSE NoAuthorization

\* typeof window !== 'undefined' ? localStorage.getItem('auth_token') : null
getItem == IF browser.window THEN browser.auth_token ELSE NoItem

\* authUtils.setToken(token): localStorage.setItem, when there is a window.
setToken(token) ==
    /\ browser' = [browser EXCEPT
                     !.auth_token = IF browser.window THEN token ELSE @,
                     !.last = [op |-> "set", token |-> token]]
    /\ UNCHANGED <<storeVars, lastSearch, ingest, chat, lastDelete, page, sideVars>>

\* authUtils.clearToken(): localStorage.removeItem, when there is a window.
clearToken ==
    /\ browser' = [browser EXCEPT
                     !.auth_token = IF browser.window THEN NoItem ELSE @,
                     !.last = [op |-> "clear", token |-> NoItem]]
    /\ UNCHANGED <<storeVars, lastSearch, ingest, chat, lastDelete, page, sideVars>>

\* { ...defaultHeaders, ...options.headers }: a key of the second object
\* replaces the same key of the first, and an empty object replaces nothing.
MergeHeaders(defaultHeaders, optionsHeaders) ==
    [k \in DOMAIN defaultHeaders \cup DOMAIN optionsHeaders |->
        IF k \in DOMAIN optionsHeaders THEN optionsHeaders[k] ELSE defaultHeaders[k]]
DefaultHeaders == [ContentType |-> "application/json"]
EmptyHeaders == [k \in {} |-> ""]

\* The request fetch is called with: who built it, its body, the Content-Type
\* and Authorization of its headers, and the token call it came after.
Request(by, body, optionsHeaders) ==
    [issued |-> TRUE, by |-> by, body |-> body,
     content_type |-> MergeHeaders(DefaultHeaders, optionsHeaders).ContentType,
     authorization |-> Authorization(getItem),
     after |-> browser.last]

\* apiFetch: the token is read and fetch is called with the headers, with no
\* await in between. No endpoint passes an Authorization of its own in
\* options.headers.
apiFetch ==
    /\ browser' = [browser EXCEPT !.request = Request("apiFetch", "JSON", EmptyHeaders)]
    /\ UNCHANGED <<storeVars, lastSearch, ingest, chat, lastDelete, page, sideVars>>

\* api.rag.ingest: apiFetch with a FormData body and headers: {}.
rag_ingest ==
    /\ browser' = [browser EXCEPT !.request = Request("ingest", "FormData", EmptyHeaders)]
    /\ UNCHANGED <<storeVars, lastSearch, ingest, chat, lastDelete, page, sideVars>>

\* streamResponse: the same, when the generator is first advanced.
streamResponse ==
    /\ browser' = [browser EXCEPT
                     !.request = Request("streamResponse", "JSON", EmptyHeaders)]
    /\ UNCHANGED <<storeVars, lastSearch, ingest, chat, lastDelete, page, sideVars>>

\* A page opens in a browser, with whatever token an earlier visit left, or the
\* module runs on the server, where there is no window.
InitAuth ==
    /\ EmptyStore
    /\ ingest = NoIngest
    /\ chat = NoChat
    /\ page = NoPage(FALSE)
    /\ browser \in {NoBrowser(TRUE, item) : item \in AuthTokens \cup {NoItem}}
                      \cup {NoBrowser(FALSE, NoItem)}
    /\ NoSide

NextAuth ==
    \/ \E token \in AuthTokens : setToken(token)
    \/ clearToken
    \/ apiFetch
    \/ rag_ingest
    \/ streamResponse

SpecAuth == InitAuth /\ [][NextAuth]_vars

\* C19 (as claimed): from setToken(t) until clearToken every request carries
\* Authorization: Bearer t for the latest t, and after clearToken none does.
C19_BearerAsClaimed ==
    browser.request.issued =>
        /\ browser.request.after.op = "set" =>
              browser.request.authorization = Bearer(browser.request.after.token)
        /\ browser.request.after.op = "clear" =>
              browser.request.authorization = NoAuthorization

\* C19 (amended): in a browser, from setToken(t) with a non-empty t until
\* clearToken, every request carries Authorization: Bearer t for the latest t;
\* after setToken("") or clearToken, and wherever window is undefined, no
\* request carries an Authorization header.
C19_BearerToken ==
    browser.request.issued =>
        /\ (browser.window /\ browser.request.after.op = "set" /\ browser.request.after.token # "") =>
              browser.request.authorization = Bearer(browser.request.after.token)
        /\ (browser.window /\ browser.request.after.op = "set" /\ browser.request.after.token = "") =>
              browser.request.authorization = NoAuthorization
        /\ browser.request.after.op = "clear" =>
              browser.request.authorization = NoAuthorization
        /\ ~browser.window => browser.request.authorization = NoAuthorization

\* C19 witness: a stream request issued in a browser after setToken("b"),
\* carrying Bearer b.
C19_Witness ==
    /\ browser.request.issued
    /\ browser.request.by = "streamResponse"
    /\ browser.window
    /\ browser.request.after = [op |-> "set", token |-> "b"]
    /\ browser.last = browser.request.after
    /\ browser.request.authorization = Bearer("b")

\* C23 (as claimed): the ingest request, whose body is FormData, is sent
\* without the header Content-Type: application/json.
C23_IngestContentType ==
    (browser.request.issued /\ browser.request.body = "FormData") =>
        browser.request.content_type # "application/json"

\* handleSendMessage has run to its end, with no New Chat since the send.
SendCompleted ==
    /\ page.pc = "idle"
    /\ page.sends > 0
    /\ ~page.cleared /\ ~page.error

\* C24 (as claimed): when handleSendMessage has completed, the conversation
\* ends with the user message followed by exactly one assistant message, and
\* no message is marked isStreaming.
C24_OneAnswerPerSend ==
    SendCompleted =>
        /\ Len(page.messages) >= 2
        /\ page.messages[Len(page.messages)].role = "assistant"
        /\ page.messages[Len(page.messages) - 1].role = "user"
        /\ \A k \in DOMAIN page.messages : ~page.messages[k].isStreaming

\* The same for the sends that did not take the catch block.
C24_UnlessRequestFails ==
    (SendCompleted /\ Last(page.messages) # ErrorMessage) => C24_OneAnswerPerSend

C25_UnlessPageFails == page.isLoading ~> (~page.isLoading \/ page.error)

\* ================================================================ ChatInput
\* The keys pressed, and the characters the textarea can hold.
Keys == {"a", " ", "Enter"}
Whitespace == {" ", "\n"}

\* String.prototype.trim: whitespace is removed from both ends.
RECURSIVE TrimStart(_)
TrimStart(text) ==
    IF text # <<>> /\ Head(text) \in Whitespace THEN TrimStart(Tail(text)) ELSE text
RECURSIVE TrimEnd(_)
TrimEnd(text) ==
    IF text # <<>> /\ text[Len(text)] \in Whitespace
    THEN TrimEnd(SubSeq(text, 1, Len(text) - 1)) ELSE text
TrimNothing(text) == text
Trim(text) == TrimEnd(TrimStart(text))

\* if (!input.trim() || isLoading || disabled) return
CanSubmit == Trim(input.text) # <<>> /\ ~page.isLoading /\ ~input.disabled

\* e.key === "Enter" && !e.shiftKey
IsSubmitKeyAnyEnter(key, shiftKey) == key = "Enter"
IsSubmitKey(key, shiftKey) == key = "Enter" /\ ~shiftKey

\* The character a key's default action inserts into the textarea.
Inserted(key) == IF key = "Enter" THEN "\n" ELSE key

\* What is recorded of a key or click: the key, whether its default action was
\* prevented, whether onSend was called and with what, and the text, the guard,
\* isLoading and the handler's state as they were before it.
Event(kind, key, shiftKey, prevented, submitted) ==
    [kind |-> kind, key |-> key, shiftKey |-> shiftKey, prevented |-> prevented,
     submitted |-> submitted,
     message |-> IF submitted THEN Trim(input.text) ELSE <<>>,
     before |-> input.text, guard |-> CanSubmit,
     wasLoading |-> page.isLoading, inFlight |-> page.pc # "idle"]

\* handleSubmit: past the guard, onSend(input.trim()) and setInput("").
handleSubmit(kind, key, shiftKey) ==
    IF CanSubmit
    THEN /\ SendMessage
         /\ input' = [input EXCEPT !.text = <<>>,
                                   !.event = Event(kind, key, shiftKey, TRUE, TRUE)]
    ELSE /\ input' = [input EXCEPT !.event = Event(kind, key, shiftKey, TRUE, FALSE)]
         /\ UNCHANGED page

\* A key goes down in the textarea, which is disabled while disabled || isLoading.
\* handleKeyDown prevents the default action of the submit key and submits; any
\* other key takes its default action, and onChange stores the new text.
KeyDown(key, shiftKey) ==
    /\ ~(input.disabled \/ page.isLoading)
    /\ IF IsSubmitKey(key, shiftKey)
       THEN handleSubmit("keydown", key, shiftKey)
       ELSE /\ Len(input.text) < MaxText
            /\ input' = [input EXCEPT
                           !.text = Append(@, Inserted(key)),
                           !.event = Event("keydown", key, shiftKey, FALSE, FALSE)]
            /\ UNCHANGED page
    /\ UNCHANGED <<storeVars, lastSearch, ingest, chat, lastDelete, browser, uploads, reader>>

\* A click on the send button, which is disabled unless the guard holds,
\* submits the form.
ClickSend ==
    /\ CanSubmit
    /\ handleSubmit("click", "none", FALSE)
    /\ UNCHANGED <<storeVars, lastSearch, ingest, chat, lastDelete, browser, uploads, reader>>

\* ChatInput on the chat page in demo mode, or with its disabled prop set.
InitInput ==
    /\ EmptyStore
    /\ ingest = NoIngest
    /\ chat = NoChat
    /\ page = NoPage(TRUE)
    /\ browser = NoBrowser(TRUE, NoItem)
    /\ uploads = NoUploads
    /\ input \in {NoInput(disabled) : disabled \in BOOLEAN}
    /\ reader = NoReader(<<>>)

NextInput ==
    \/ \E key \in Keys, shiftKey \in BOOLEAN : KeyDown(key, shiftKey)
    \/ ClickSend
    \/ DemoWord
    \/ DemoEnd

SpecInput == InitInput /\ [][NextInput]_vars

\* C22: Enter without Shift has its default action prevented, so it inserts no
\* newline, and submits exactly when the send button's guard holds; Enter with
\* Shift never submits and inserts the newline.
C22_EnterSubmits ==
    (input.event.kind = "keydown" /\ input.event.key = "Enter") =>
        IF input.event.shiftKey
        THEN /\ ~input.event.submitted
             /\ input.text = Append(input.event.before, "\n")
        ELSE /\ input.event.prevented
             /\ input.event.submitted = input.event.guard
             /\ input.text = IF input.event.submitted THEN <<>> ELSE input.event.before

\* C22 witness: Enter sent a text that already held a newline from Shift+Enter.
C22_Witness ==
    /\ input.event.kind = "keydown" /\ input.event.key = "Enter"
    /\ ~input.event.shiftKey
    /\ input.event.submitted
    /\ \E k \in DOMAIN input.event.before : input.event.before[k] = "\n"

\* C26: onSend is called only with the trimmed text, which is not empty and
\* has no whitespace at either end, only when neither isLoading nor disabled
\* holds and no response is in flight, and the input is empty afterwards.
C26_SendGuard ==
    input.event.kind # "none" =>
        (input.event.submitted =>
            /\ input.event.message # <<>>
            /\ input.event.message[1] \notin Whitespace
            /\ input.event.message[Len(input.event.message)] \notin Whitespace
            /\ \E i, j \in 0..MaxText :
                  /\ i + Len(input.event.message) + j = Len(input.event.before)
                  /\ \A k \in DOMAIN input.event.message :
                        input.event.message[k] = input.event.before[i + k]
                  /\ \A k \in 1..i : input.event.before[k] \in Whitespace
                  /\ \A k \in 1..j :
                        input.event.before[i + Len(input.event.message) + k] \in Whitespace
            /\ ~input.event.wasLoading
            /\ ~input.disabled
            /\ ~input.event.inFlight
            /\ input.text = <<>>)

\* C26 witness: a second message sent after the first response ended, from a
\* text with whitespace around it.
C26_Witness ==
    /\ input.event.kind # "none"
    /\ input.event.submitted
    /\ page.sends = 2
    /\ Len(input.event.message) < Len(input.event.before)

\* ================================================================ streamResponse's read loop
\* A response body is a string, here a sequence of pieces: the prefix 'data: '
\* is the two pieces "data" and ": ", so that a read can end inside it.
Prefix == <<"data", ": ">>
Sentinel == <<"[DONE]">>
DataLine(data) == Prefix \o data \o <<"\n">>
Lines ==
    {DataLine(<<"1">>), DataLine(<<"x">>), DataLine(Sentinel), DataLine(<<>>),
     <<"\n">>, <<"x", "\n">>, <<"data", "x", "\n">>}
Tails == {<<>>, <<"data">>, Prefix \o <<"x">>, Prefix \o <<"1">>, Prefix \o Sentinel}

RECURSIVE Concat(_)
Concat(pieces) == IF pieces = <<>> THEN <<>> ELSE Head(pieces) \o Concat(Tail(pieces))

\* The bodies read: up to MaxLines whole lines and what follows the last newline.
Bodies ==
    {Concat(lines) \o tail :
        lines \in UNION {[1..n -> Lines] : n \in 0..MaxLines}, tail \in Tails}

\* buffer.split('\n')
RECURSIVE Split(_)
Split(text) ==
    IF \A k \in DOMAIN text : text[k] # "\n"
    THEN <<text>>
    ELSE LET k == CHOOSE k \in DOMAIN text :
                      text[k] = "\n" /\ \A j \in 1..(k - 1) : text[j] # "\n"
         IN  <<SubSeq(text, 1, k - 1)>> \o Split(SubSeq(text, k + 1, Len(text)))

\* buffer = lines.pop() || '': what follows the last newline waits for the next read.
CarryNothing(lines) == <<>>
Carry(lines) == lines[Len(lines)]
Popped(lines) == SubSeq(lines, 1, Len(lines) - 1)

\* line.startsWith('data: ') and line.slice(6)
StartsWithPrefix(line) == Len(line) >= Len(Prefix) /\ SubSeq(line, 1, Len(Prefix)) = Prefix
Slice(line) == SubSeq(line, Len(Prefix) + 1, Len(line))

\* JSON.parse(data), or the raw data when it throws: "1" is JSON, "x" is not.
IsJSON(data) == data # <<>> /\ \A k \in DOMAIN data : data[k] = "1"
Parse(data) == IF IsJSON(data) THEN [parsed |-> Len(data)] ELSE [raw |-> data]

\* for (const line of lines): yield each data line, return at the sentinel.
RECURSIVE Consume(_, _)
Consume(lines, yielded) ==
    IF lines = <<>>
    THEN [yielded |-> yielded, returned |-> FALSE]
    ELSE IF StartsWithPrefix(Head(lines))
         THEN IF Slice(Head(lines)) = Sentinel
              THEN [yielded |-> yielded, returned |-> TRUE]
              ELSE Consume(Tail(lines), Append(yielded, Parse(Slice(Head(lines)))))
         ELSE Consume(Tail(lines), yielded)

\* One turn of the loop with a chunk read: buffer += chunk, split, pop, consume.
ReadChunk(r, chunk) ==
    LET lines == Split(r.buffer \o chunk)
        c == Consume(Popped(lines), r.yielded)
    IN  [r EXCEPT !.buffer = Carry(lines),
                  !.yielded = c.yielded,
                  !.state = IF c.returned THEN "returned" ELSE "reading"]

\* reader.read() resolves with the next n pieces of the body.
Read(n) ==
    /\ reader.state = "reading"
    /\ reader.pos + n <= Len(reader.body)
    /\ reader' = [ReadChunk(reader, SubSeq(reader.body, reader.pos + 1, reader.pos + n))
                    EXCEPT !.pos = reader.pos + n,
                           !.cutPrefix = \/ reader.cutPrefix
                                         \/ /\ reader.pos + n < Len(reader.body)
                                            /\ reader.body[reader.pos + n] = "data"
                                            /\ reader.body[reader.pos + n + 1] = ": "]
    /\ UNCHANGED <<storeVars, lastSearch, ingest, chat, lastDelete, page, browser, uploads, input>>

\* reader.read() resolves with done: break, and the generator ends.
ReadDone ==
    /\ reader.state = "reading"
    /\ reader.pos = Len(reader.body)
    /\ reader' = [reader EXCEPT !.state = "ended"]
    /\ UNCHANGED <<storeVars, lastSearch, ingest, chat, lastDelete, page, browser, uploads, input>>

InitReader ==
    /\ EmptyStore
    /\ ingest = NoIngest
    /\ chat = NoChat
    /\ page = NoPage(FALSE)
    /\ browser = NoBrowser(TRUE, NoItem)
    /\ uploads = NoUploads
    /\ input = NoInput(FALSE)
    /\ reader \in {NoReader(body) : body \in Bodies}

NextReader ==
    \/ \E n \in 1..(MaxLines * 4 + 3) : Read(n)
    \/ ReadDone

SpecReader == InitReader /\ [][NextReader]_vars

Finished == reader.state \in {"returned", "ended"}

\* What the loop yields when the whole body arrives in one read.
WholeYield(body) == ReadChunk(NoReader(body), body).yielded

\* C27: however the body was split into reads, the items yielded are those
\* yielded when the whole body arrives in a single read.
C27_SplitIndependent == Finished => reader.yielded = WholeYield(reader.body)

\* C27 witness: two items were yielded from a body one of whose reads ended
\* inside the 'data: ' prefix.
C27_Witness == Finished /\ reader.cutPrefix /\ Len(reader.yielded) = 2

\* Every 'data: ' line of the body before the sentinel, the text after the last
\* newline included.
DataLines(body) == Consume(Split(body), <<>>).yielded

\* C28: once the generator is over it has yielded every 'data: ' line before
\* the sentinel, once and in order, the final line without a newline included.
C28_EveryLineYielded == Finished => reader.yielded = DataLines(reader.body)

\* C28, for bodies whose last data line ends with a newline: every 'data: '
\* line before the sentinel has been yielded, once and in order.
C28_TerminatedLinesYielded ==
    (Finished /\ ~StartsWithPrefix(Carry(Split(reader.body)))) =>
        reader.yielded = DataLines(reader.body)

\* ================================================================ document uploads
\* The ids of a new batch: Math.random().toString(36).substr(2, 9), taken to be
\* different from every id given out before.
NewIds(n) == [k \in 1..n |-> uploads.nextId + k - 1]
Document(id) == [id |-> id, status |-> "uploading"]

Has(docs, id) == \E k \in DOMAIN docs : docs[k].id = id
StatusIn(docs, id) == docs[CHOOSE k \in DOMAIN docs : docs[k].id = id].status

\* prev.map((d) => d.id === doc.id ? { ...d, status } : d)
SetStatusAll(docs, id, status) ==
    [k \in DOMAIN docs |-> [docs[k] EXCEPT !.status = status]]
SetStatusUpsert(docs, id, status) ==
    IF Has(docs, id)
    THEN [k \in DOMAIN docs |->
            IF docs[k].id = id THEN [docs[k] EXCEPT !.status = status] ELSE docs[k]]
    ELSE Append(docs, [id |-> id, status |-> status])
SetStatus(docs, id, status) ==
    [k \in DOMAIN docs |->
        IF docs[k].id = id THEN [docs[k] EXCEPT !.status = status] ELSE docs[k]]

\* prev.filter((d) => d.id !== id)
IsNot(id, d) == d.id # id
Filter(docs, id) == SelectSeq(docs, LAMBDA d : IsNot(id, d))

\* The end of one turn of a for loop: the next file, or the end of the handler.
\* In the backend loop the next turn calls api.rag.ingest before it awaits.
ContinueDemo(u) ==
    IF u.i < Len(u.ids)
    THEN [u EXCEPT !.i = @ + 1, !.phase = "timer1000"]
    ELSE [u EXCEPT !.state = "done", !.phase = "none"]
ContinueIngest(u) ==
    IF u.i < Len(u.ids)
    THEN [u EXCEPT !.i = @ + 1, !.phase = "ingest", !.calls = Append(@, u.ids[u.i + 1])]
    ELSE [u EXCEPT !.state = "done", !.phase = "none"]

\* catch (error): the error is logged, the status set, and the loop goes on.
Abandon(u) == [u EXCEPT !.state = "done", !.phase = "none"]
AfterCatch(u) == ContinueIngest(u)

\* The request of an api.rag.ingest call, when the handler makes one.
IngestRequest(calls) ==
    IF calls
    THEN [browser EXCEPT !.request = Request("ingest", "FormData", EmptyHeaders)]
    ELSE browser

\* handleUpload(files) with n files: the documents are appended as uploading;
\* in demo mode the first timer starts, otherwise the first file is sent.
handleUpload(h, n) ==
    /\ uploads.handlers[h].state = "idle"
    /\ \A g \in Uploads : g < h => uploads.handlers[g].state # "idle"
    /\ uploads' = [uploads EXCEPT
                     !.documents = @ \o [k \in 1..n |-> Document(NewIds(n)[k])],
                     !.nextId = @ + n,
                     !.handlers[h] =
                         [state |-> "running", ids |-> NewIds(n), i |-> 1,
                          phase |-> IF page.demo THEN "timer1000" ELSE "ingest",
                          missed |-> 0,
                          calls |-> IF page.demo THEN <<>> ELSE <<NewIds(n)[1]>>]]
    /\ browser' = IngestRequest(~page.demo)
    /\ UNCHANGED <<storeVars, lastSearch, ingest, chat, lastDelete, page, input, reader>>

\* setDocuments for the handler's current document, and the handler as it goes
\* on; an update that finds its document gone from the list is counted.
UpdateDocument(h, status, u) ==
    /\ uploads' = [uploads EXCEPT
                     !.documents = SetStatus(@, uploads.handlers[h].ids[uploads.handlers[h].i],
                                             status),
                     !.handlers[h] =
                         [u EXCEPT !.missed =
                             IF Has(uploads.documents,
                                    uploads.handlers[h].ids[uploads.handlers[h].i])
                             THEN @ ELSE @ + 1]]
    /\ browser' = IngestRequest(Len(u.calls) > Len(uploads.handlers[h].calls))
    /\ UNCHANGED <<storeVars, lastSearch, ingest, chat, lastDelete, page, input, reader>>

\* Demo mode: the 1000 ms timer fires and the document is processing.
DemoProcessing(h) ==
    /\ uploads.handlers[h].phase = "timer1000"
    /\ UpdateDocument(h, "processing", [uploads.handlers[h] EXCEPT !.phase = "timer1500"])

\* Demo mode: the 1500 ms timer fires and the document is ready.
DemoReady(h) ==
    /\ uploads.handlers[h].phase = "timer1500"
    /\ UpdateDocument(h, "ready", ContinueDemo(uploads.handlers[h]))

\* await api.rag.ingest resolves: the document is ready.
IngestResolves(h) ==
    /\ uploads.handlers[h].phase = "ingest"
    /\ UpdateDocument(h, "ready", ContinueIngest(uploads.handlers[h]))

\* await api.rag.ingest rejects: the document is in error.
IngestRejects(h) ==
    /\ uploads.handlers[h].phase = "ingest"
    /\ UpdateDocument(h, "error", AfterCatch(uploads.handlers[h]))

\* The remove button, shown for a document that is not uploading.
handleRemoveDocument(id) ==
    /\ Has(uploads.documents, id)
    /\ StatusIn(uploads.documents, id) # "uploading"
    /\ uploads' = [uploads EXCEPT !.documents = Filter(@, id)]
    /\ UNCHANGED <<storeVars, lastSearch, ingest, chat, lastDelete, page, browser, input, reader>>

\* The chat page with DEMO_MODE true, as committed, or false.
InitUpload ==
    /\ EmptyStore
    /\ ingest = NoIngest
    /\ chat = NoChat
    /\ page \in {NoPage(DEMO_MODE) : DEMO_MODE \in BOOLEAN}
    /\ browser = NoBrowser(TRUE, NoItem)
    /\ NoSide

UploadStep(h) ==
    \/ DemoProcessing(h)
    \/ DemoReady(h)
    \/ IngestResolves(h)
    \/ IngestRejects(h)

DocumentIdsIssued == 1..(Cardinality(Uploads) * MaxFiles)

NextUpload ==
    \/ \E h \in Uploads, n \in 1..MaxFiles : handleUpload(h, n)
    \/ \E h \in Uploads : DemoProcessing(h)
    \/ \E h \in Uploads : DemoReady(h)
    \/ \E h \in Uploads : IngestResolves(h)
    \/ \E h \in Uploads : IngestRejects(h)
    \/ \E id \in DocumentIdsIssued : handleRemoveDocument(id)

SpecUpload == InitUpload /\ [][NextUpload]_vars

\* Timers fire, and a request to the backend is answered or fails.
FairSpecUpload == SpecUpload /\ \A h \in Uploads : WF_vars(UploadStep(h))

InList(id) == Has(uploads.documents, id)
Settled(id) == InList(id) => StatusIn(uploads.documents, id) \in {"ready", "error"}

\* The status changes a document may go through in each mode.
Forward ==
    IF page.demo
    THEN {<<"uploading", "processing">>, <<"processing", "ready">>}
    ELSE {<<"uploading", "ready">>, <<"uploading", "error">>}

\* C21: a document's status changes only along uploading, processing, ready
\* in demo mode and from uploading to ready or to error otherwise, so ready
\* and error are final and no status comes back; and every document in the
\* list is in time removed, ready or in error.
C21_StatusForward ==
    /\ [][\A id \in DocumentIdsIssued :
            (InList(id) /\ Has(uploads'.documents, id)) =>
                \/ StatusIn(uploads'.documents, id) = StatusIn(uploads.documents, id)
                \/ <<StatusIn(uploads.documents, id), StatusIn(uploads'.documents, id)>>
                      \in Forward]_vars
    /\ \A id \in DocumentIdsIssued : InList(id) ~> Settled(id)

\* C21 witness: in demo mode every handler is over, a document is ready and
\* another was removed while it was processing.
C21_Witness ==
    /\ page.demo
    /\ \A h \in Uploads : uploads.handlers[h].state = "done"
    /\ \E id \in DocumentIdsIssued :
          InList(id) /\ StatusIn(uploads.documents, id) = "ready"
    /\ \E h \in Uploads : uploads.handlers[h].missed > 0

\* C29: a document that was given an id and is no longer in the list is not
\* in the list after any step, whatever upload is still running.
C29_NeverReappears ==
    [][\A id \in DocumentIdsIssued :
          (id < uploads.nextId /\ ~InList(id)) => ~Has(uploads'.documents, id)]_vars

\* C29 witness: a status update ran for a document that had been removed, and
\* the document is not in the list.
C29_Witness ==
    \E h \in Uploads :
        /\ uploads.handlers[h].missed > 0
        /\ \E k \in DOMAIN uploads.handlers[h].ids :
              k <= uploads.handlers[h].i /\ ~InList(uploads.handlers[h].ids[k])

\* C30: against the backend a handler has called ingest for its files in list
\* order up to the current one, every earlier file is settled or removed and
\* every later one still uploading, a finished handler has called ingest for
\* all its files, and a step that puts a document in error changes no other
\* document.
C30_FailureIsolated ==
    /\ [](~page.demo =>
            \A h \in Uploads :
                /\ uploads.handlers[h].state = "running" =>
                      /\ uploads.handlers[h].calls =
                             SubSeq(uploads.handlers[h].ids, 1, uploads.handlers[h].i)
                      /\ \A k \in DOMAIN uploads.handlers[h].ids :
                            IF k < uploads.handlers[h].i
                            THEN Settled(uploads.handlers[h].ids[k])
                            ELSE /\ InList(uploads.handlers[h].ids[k])
                                 /\ StatusIn(uploads.documents, uploads.handlers[h].ids[k])
                                        = "uploading"
                /\ uploads.handlers[h].state = "done" =>
                      /\ uploads.handlers[h].calls = uploads.handlers[h].ids
                      /\ \A k \in DOMAIN uploads.handlers[h].ids :
                            Settled(uploads.handlers[h].ids[k]))
    /\ [][\A id \in DocumentIdsIssued :
            (/\ InList(id)
             /\ StatusIn(uploads.documents, id) # "error"
             /\ Has(uploads'.documents, id)
             /\ StatusIn(uploads'.documents, id) = "error") =>
                \A other \in DocumentIdsIssued \ {id} :
                    InList(other) =>
                        /\ Has(uploads'.documents, other)
                        /\ StatusIn(uploads'.documents, other)
                               = StatusIn(uploads.documents, other)]_vars

\* C30 witness: a batch of two is over, its first file failed and its second
\* is ready.
C30_Witness ==
    /\ ~page.demo
    /\ \E h \in Uploads :
          /\ uploads.handlers[h].state = "done"
          /\ Len(uploads.handlers[h].ids) = 2
          /\ InList(uploads.handlers[h].ids[1]) /\ InList(uploads.handlers[h].ids[2])
          /\ StatusIn(uploads.documents, uploads.handlers[h].ids[1]) = "error"
          /\ StatusIn(uploads.documents, uploads.handlers[h].ids[2]) = "ready"
====
